---- MODULE Spec2Model ----
(***************************************************************************)
(* Model of the prediction-explanation reshaping code of                   *)
(* DR-Pred-Explain-Helper:                                                 *)
(*   src/process_explanations.py  id_explan_columns,                       *)
(*                                return_explanations_flat,                *)
(*                                return_melted_dataframe                  *)
(*   src/dr_api_request.py        DR_Pred_Explan_Pipeline                  *)
(*                                                                         *)
(* A pandas DataFrame is a record [columns, rows]: columns is the ordered  *)
(* sequence of column names, rows the sequence of rows, each row a         *)
(* function from the column names to cell values.  Row k of the model has  *)
(* the pandas index label k - 1 (the RangeIndex pd.read_csv produces).     *)
(*                                                                         *)
(* A column name is a record [kind, n, part] standing for the string       *)
(*   kind = "EXPLANATION": "EXPLANATION_" + str(n) + "_" + part            *)
(*   kind = "FEATURE"    : part + "_EXPLANATION_STRENGTH"                  *)
(*   kind = "PASS"       : part  (any other column)                        *)
(***************************************************************************)
EXTENDS Integers, Sequences, FiniteSets, TLC

VARIABLES
    data,           \* the caller's DataFrame object handed to a function
    input,          \* the contents of that object when the call was made
    op,             \* the function that has been called on data ("none" before)
    ret,            \* what the call produced
    self_data,      \* DR_Pred_Explan_Pipeline.data
    last_task_run,  \* DR_Pred_Explan_Pipeline.last_task_run
    last_call,      \* name of the pipeline method called last
    effective,      \* the pipeline calls that got past their stage check, newest last
    batch_processed \* how often the predictions now held were processed

vars == <<data, input, op, ret, self_data, last_task_run, last_call, effective,
          batch_processed>>

reshape_vars == <<data, input, op, ret>>
pipeline_vars == <<self_data, last_task_run, last_call, effective, batch_processed>>

-----------------------------------------------------------------------------
(* Bounds of the model *)

MaxRows == 2

Slots == {1, 2}

Features == {"age", "income"}

Strengths == {"0.5", "-0.2"}

-----------------------------------------------------------------------------
(* Cell values and column names *)

\* numpy.nan / a missing cell
NaN == "NaN"

\* pandas isna() of one cell
IsNa(v) == v = NaN

\* Python == on cell values: nan compares unequal to everything, itself included
PyEq(a, b) == IF a = NaN \/ b = NaN THEN FALSE ELSE a = b

\* str(v) as an f-string interpolates a cell: nan formats as the text "nan"
Fmt(v) == IF v = NaN THEN "nan" ELSE v

NameCol(n) == [kind |-> "EXPLANATION", n |-> n, part |-> "FEATURE_NAME"]

StrengthCol(n) == [kind |-> "EXPLANATION", n |-> n, part |-> "STRENGTH"]

FeatureStrengthCol(feature_name) ==
    [kind |-> "FEATURE", n |-> 0, part |-> Fmt(feature_name)]

PassCol(name) == [kind |-> "PASS", n |-> 0, part |-> name]

OrigRowNum == PassCol("orig_row_num")

VariableNumber == PassCol("variable_number")

FeatureNameOut == PassCol("feature_name")

FeatureStrengthOut == PassCol("feature_strength")

\* re.compile("EXPLANATION_(.*?)").match(col)
MatchBase(col) == col.kind = "EXPLANATION"

\* re.compile("EXPLANATION_(.*?)_FEATURE_NAME").match(col)
MatchFeatureName(col) == col.kind = "EXPLANATION" /\ col.part = "FEATURE_NAME"

\* re.compile("[0-9]+").findall(x)[0] on an explanation column name
TrimNumber(col) == col.n

-----------------------------------------------------------------------------
(* DataFrame helpers *)

EmptyFrame == [columns |-> <<>>, rows |-> <<>>]

ColSet(df) == {df.columns[k] : k \in 1..Len(df.columns)}

NRows(df) == Len(df.rows)

\* df[col] = vals  for a column that is not yet in df: appended last, vals[k]
\* the value of row k
AddColumn(df, col, vals) ==
    [columns |-> Append(df.columns, col),
     rows |-> [k \in 1..NRows(df) |->
                 [c \in ColSet(df) \cup {col} |->
                     IF c = col THEN vals[k] ELSE df.rows[k][c]]]]

\* df.at[i, col] = v
SetAt(df, i, col, v) ==
    [df EXCEPT !.rows[i] = [c \in DOMAIN df.rows[i] |->
                              IF c = col THEN v ELSE df.rows[i][c]]]

KeepCol(dropped, c) == \A k \in 1..Len(dropped) : dropped[k] # c

\* df.drop(dropped, axis=1): a new frame
Drop(df, dropped) ==
    LET keep(c) == KeepCol(dropped, c)
        kept == SelectSeq(df.columns, keep)
    IN [columns |-> kept,
        rows |-> [k \in 1..NRows(df) |->
                    [c \in {kept[j] : j \in 1..Len(kept)} |-> df.rows[k][c]]]]

\* equality of two frames, column by column and cell by cell
SameFrame(a, b) ==
    /\ a.columns = b.columns
    /\ NRows(a) = NRows(b)
    /\ \A k \in 1..NRows(a) : \A c \in ColSet(a) : a.rows[k][c] = b.rows[k][c]

-----------------------------------------------------------------------------
(* id_explan_columns *)

NaCount(df, col) == Cardinality({k \in 1..NRows(df) : IsNa(df.rows[k][col])})

\* variant: a slot counts as populated only when no row is null
IsPopulatedNameColNoNulls(df, col) ==
    MatchFeatureName(col) /\ NaCount(df, col) = 0

\* the condition of the comprehension at line 33
IsPopulatedNameCol(df, col) ==
    MatchFeatureName(col) /\ NaCount(df, col) # NRows(df)

id_explan_columns(df) ==
    LET explanation_columns == SelectSeq(df.columns, MatchBase)
        pop(col) == IsPopulatedNameCol(df, col)
        popcols == SelectSeq(explanation_columns, pop)
    IN [explanation_columns |-> explanation_columns,
        populated |-> [k \in 1..Len(popcols) |-> TrimNumber(popcols[k])]]

-----------------------------------------------------------------------------
(* return_explanations_flat *)

\* The running state of the loop at lines 61-74: the frame being mutated in
\* place and the exception raised so far ("" while none).
LoopState(df, err) == [data |-> df, err |-> err]

\* the scalar numpy.nan broadcast over the rows of df
NaNCells(df) == [k \in 1..NRows(df) |-> NaN]

\* variant: a missing strength column reads as null instead of raising
AssignStrengthLenient(st, row, i, col_num, fcol) ==
    IF StrengthCol(col_num) \in DOMAIN row
    THEN LoopState(SetAt(st.data, i, fcol, row[StrengthCol(col_num)]), "")
    ELSE LoopState(SetAt(st.data, i, fcol, NaN), "")

\* lines 65-67 and 72-74: data.at[i, <feature column>] = row[<strength column>];
\* the right-hand side is read first and raises KeyError when the row has no
\* such column
AssignStrength(st, row, i, col_num, fcol) ==
    IF StrengthCol(col_num) \in DOMAIN row
    THEN LoopState(SetAt(st.data, i, fcol, row[StrengthCol(col_num)]), "")
    ELSE LoopState(st.data, "KeyError")

\* variant: the feature column is initialised to null on every reference, not
\* only on the first
FlatCellRecreates(st, row, i, col_num) ==
    LET feature_name == row[NameCol(col_num)]
        fcol == FeatureStrengthCol(feature_name)
        blank == [st.data EXCEPT !.rows = [k \in 1..NRows(st.data) |->
                     [c \in DOMAIN st.data.rows[k] |->
                         IF c = fcol THEN NaN ELSE st.data.rows[k][c]]]]
    IN IF fcol \in ColSet(st.data)
       THEN AssignStrength(LoopState(blank, ""), row, i, col_num, fcol)
       ELSE IF PyEq(row[NameCol(col_num)], NaN)
       THEN st
       ELSE AssignStrength(LoopState(AddColumn(st.data, fcol, NaNCells(st.data)), ""),
                           row, i, col_num, fcol)

\* variant: a cell that already holds a strength is not overwritten
FlatCellKeepsFirst(st, row, i, col_num) ==
    LET feature_name == row[NameCol(col_num)]
        fcol == FeatureStrengthCol(feature_name)
    IN IF fcol \in ColSet(st.data)
       THEN (IF st.data.rows[i][fcol] # NaN THEN st
             ELSE AssignStrength(st, row, i, col_num, fcol))
       ELSE IF PyEq(row[NameCol(col_num)], NaN)
       THEN st
       ELSE AssignStrength(LoopState(AddColumn(st.data, fcol, NaNCells(st.data)), ""),
                           row, i, col_num, fcol)

\* lines 63-74: the body of the inner loop for row i and slot col_num
FlatCell(st, row, i, col_num) ==
    LET feature_name == row[NameCol(col_num)]
        fcol == FeatureStrengthCol(feature_name)
    IN IF fcol \in ColSet(st.data)
       THEN AssignStrength(st, row, i, col_num, fcol)
       ELSE IF PyEq(row[NameCol(col_num)], NaN)
       THEN st
       ELSE AssignStrength(LoopState(AddColumn(st.data, fcol, NaNCells(st.data)), ""),
                           row, i, col_num, fcol)

\* line 62: for col_num in populated_explanation_col_numbers, from position k
RECURSIVE FlatRow(_, _, _, _, _)
FlatRow(st, row, i, nums, k) ==
    IF k > Len(nums) \/ st.err # ""
    THEN st
    ELSE FlatRow(FlatCell(st, row, i, nums[k]), row, i, nums, k + 1)

\* line 61: for i, row in data.iterrows(); the rows iterated are those of the
\* frame as it was when the loop started
RECURSIVE FlatRows(_, _, _, _)
FlatRows(st, snapshot, nums, i) ==
    IF i > NRows(snapshot) \/ st.err # ""
    THEN st
    ELSE FlatRows(FlatRow(st, snapshot.rows[i], i, nums, 1), snapshot, nums, i + 1)

\* What a call leaves behind: the caller's frame, and the value returned
\* (kind "table"), None (kind "None") or the exception raised.
Outcome(df, kind, table) == [data |-> df, kind |-> kind, table |-> table]

return_explanations_flat(df) ==
    LET ids == id_explan_columns(df)
        st == FlatRows(LoopState(df, ""), df, ids.populated, 1)
    IN IF st.err # ""
       THEN Outcome(st.data, st.err, EmptyFrame)
       ELSE Outcome(st.data, "table", Drop(st.data, ids.explanation_columns))

-----------------------------------------------------------------------------
(* return_melted_dataframe *)

\* data.index: the labels 0 .. n-1
IndexOf(df) == [k \in 1..NRows(df) |-> k - 1]

\* line 107: data["orig_row_num"] = data.index
WithOrigRowNum(df) == AddColumn(df, OrigRowNum, IndexOf(df))

\* DataFrame.melt(id_vars=["orig_row_num"], value_vars, value_name,
\* var_name="variable_number"): one output row per (value column, input row),
\* value columns outermost, null values kept
Melt(df, value_vars, value_col) ==
    LET n == NRows(df)
    IN [columns |-> <<OrigRowNum, VariableNumber, value_col>>,
        rows |-> [j \in 1..(Len(value_vars) * n) |->
            LET v == ((j - 1) \div n) + 1
                k == ((j - 1) % n) + 1
            IN [c \in {OrigRowNum, VariableNumber, value_col} |->
                  IF c = OrigRowNum THEN df.rows[k][OrigRowNum]
                  ELSE IF c = VariableNumber THEN value_vars[v]
                  ELSE df.rows[k][value_vars[v]]]]]

\* lines 127-132: the variable_number column mapped through the trim function
TrimVariableNumber(m) ==
    [m EXCEPT !.rows = [j \in 1..Len(m.rows) |->
        [m.rows[j] EXCEPT ![VariableNumber] = TrimNumber(m.rows[j][VariableNumber])]]]

SameKey(l, r) ==
    l[OrigRowNum] = r[OrigRowNum] /\ l[VariableNumber] = r[VariableNumber]

\* the rows of right that match row l, joined to it, in right's order
RECURSIVE MatchesOf(_, _, _)
MatchesOf(l, right, j) ==
    IF j > Len(right.rows) THEN <<>>
    ELSE (IF SameKey(l, right.rows[j])
          THEN <<[c \in DOMAIN l \cup {FeatureStrengthOut} |->
                    IF c = FeatureStrengthOut THEN right.rows[j][FeatureStrengthOut]
                    ELSE l[c]]>>
          ELSE <<>>) \o MatchesOf(l, right, j + 1)

RECURSIVE MergeRows(_, _, _)
MergeRows(left, right, i) ==
    IF i > Len(left.rows) THEN <<>>
    ELSE MatchesOf(left.rows[i], right, 1) \o MergeRows(left, right, i + 1)

\* left.merge(right, on=["orig_row_num", "variable_number"]): inner join
Merge(left, right) ==
    [columns |-> <<OrigRowNum, VariableNumber, FeatureNameOut, FeatureStrengthOut>>,
     rows |-> MergeRows(left, right, 1)]

\* DataFrame.drop(..., inplace=True, axis=1) changes its receiver and
\* evaluates to None
DropInplace(df, dropped) == [kind |-> "None", table |-> EmptyFrame]

MissingCols(df, cols) == {k \in 1..Len(cols) : cols[k] \notin ColSet(df)}

return_melted_dataframe(df) ==
    LET ids == id_explan_columns(df)
        nums == ids.populated
        explan_feature_name_cols == [k \in 1..Len(nums) |-> NameCol(nums[k])]
        explan_feature_str_cols == [k \in 1..Len(nums) |-> StrengthCol(nums[k])]
        df2 == WithOrigRowNum(df)
    IN IF MissingCols(df2, explan_feature_str_cols) # {}
       THEN Outcome(df2, "KeyError", EmptyFrame)
       ELSE LET data_melted_feat_name ==
                    TrimVariableNumber(Melt(df2, explan_feature_name_cols, FeatureNameOut))
                data_melted_feat_str ==
                    TrimVariableNumber(Melt(df2, explan_feature_str_cols, FeatureStrengthOut))
                merged == Merge(data_melted_feat_name, data_melted_feat_str)
                returned == DropInplace(merged, <<VariableNumber>>)
            IN Outcome(df2, returned.kind, returned.table)

-----------------------------------------------------------------------------
(* The tables the functions are called on *)

RECURSIVE SlotCols(_, _)
SlotCols(order, k) ==
    IF k > Len(order) THEN <<>>
    ELSE <<NameCol(order[k]), StrengthCol(order[k])>> \o SlotCols(order, k + 1)

\* the orders in which the slots' columns can stand in the table
SlotOrders ==
    {o \in [1..Cardinality(Slots) -> Slots] :
        \A a, b \in 1..Cardinality(Slots) : a # b => o[a] # o[b]}

NoColumn == PassCol("")

\* a table may lack one column of the naming convention
MissingOptions == {NoColumn} \cup {NameCol(n) : n \in Slots}
                             \cup {StrengthCol(n) : n \in Slots}

\* one slot of one row: no explanation, or a feature with its strength
SlotValues == {<<NaN, NaN>>} \cup (Features \X Strengths)

MakeFrame(order, missing, cells) ==
    LET present(c) == c # missing
        cols == SelectSeq(<<PassCol("row_id")>> \o SlotCols(order, 1), present)
    IN [columns |-> cols,
        rows |-> [k \in 1..Len(cells) |->
            [c \in {cols[j] : j \in 1..Len(cols)} |->
                IF c.kind = "PASS" THEN "x"
                ELSE IF c.part = "FEATURE_NAME" THEN cells[k][c.n][1]
                ELSE cells[k][c.n][2]]]]

InputFrames ==
    {MakeFrame(o, m, cells) :
        o \in SlotOrders, m \in MissingOptions,
        cells \in UNION {[1..n -> [Slots -> SlotValues]] : n \in 0..MaxRows}}

\* what a scoring job returns: every slot with both its columns, slots
\* ascending; the pipeline is exercised on tables of at most one row
RECURSIVE Ascending(_)
Ascending(S) ==
    IF S = {} THEN <<>>
    ELSE LET m == CHOOSE x \in S : \A y \in S : x <= y
         IN <<m>> \o Ascending(S \ {m})

PredictionFrames ==
    {MakeFrame(Ascending(Slots), NoColumn, cells) :
        cells \in UNION {[1..n -> [Slots -> SlotValues]] : n \in 0..1}}

\* what is loaded before scoring: rows without explanation columns
RawFrames ==
    {[columns |-> <<PassCol("row_id")>>,
      rows |-> [k \in 1..n |-> [c \in {PassCol("row_id")} |-> "x"]]] : n \in 0..MaxRows}

-----------------------------------------------------------------------------
(* Calls of the three functions on a table *)

NoRet == [kind |-> "none", table |-> EmptyFrame,
          explanation_columns |-> <<>>, populated |-> <<>>]

TableRet(out) == [kind |-> out.kind, table |-> out.table,
                  explanation_columns |-> <<>>, populated |-> <<>>]

PipelineIdle ==
    /\ self_data = [kind |-> "None", table |-> EmptyFrame]
    /\ last_task_run = "EMPTY"
    /\ last_call = "none"
    /\ effective = <<>>
    /\ batch_processed = 0

Init ==
    /\ data \in InputFrames
    /\ input = data
    /\ op = "none"
    /\ ret = NoRet
    /\ PipelineIdle

CallIdExplanColumns ==
    /\ op = "none"
    /\ LET ids == id_explan_columns(data)
       IN ret' = [kind |-> "pair", table |-> EmptyFrame,
                  explanation_columns |-> ids.explanation_columns,
                  populated |-> ids.populated]
    /\ op' = "id_explan_columns"
    /\ UNCHANGED <<data, input>>
    /\ UNCHANGED pipeline_vars

CallFlat ==
    /\ op = "none"
    /\ LET out == return_explanations_flat(data)
       IN /\ data' = out.data
          /\ ret' = TableRet(out)
    /\ op' = "return_explanations_flat"
    /\ UNCHANGED input
    /\ UNCHANGED pipeline_vars

CallMelted ==
    /\ op = "none"
    /\ LET out == return_melted_dataframe(data)
       IN /\ data' = out.data
          /\ ret' = TableRet(out)
    /\ op' = "return_melted_dataframe"
    /\ UNCHANGED input
    /\ UNCHANGED pipeline_vars

Next == CallIdExplanColumns \/ CallFlat \/ CallMelted

Spec == Init /\ [][Next]_vars

-----------------------------------------------------------------------------
(* DR_Pred_Explan_Pipeline *)

NoneValue == [kind |-> "None", table |-> EmptyFrame]

FrameValue(df) == [kind |-> "frame", table |-> df]

\* the negation of the early-return test of deployment_request and
\* project_request
RequestAllowed(stage) == stage = "LOADED_DATA"

\* variant: processing is refused only before predictions were obtained
ProcessAllowedAgain(stage) ==
    stage \in {"PREDICTIONS_OBTAINED", "PREDICTIONS_PROCESSED"}

\* the negation of the early-return test of the two process methods
ProcessAllowed(stage) == stage = "PREDICTIONS_OBTAINED"

\* the three newest calls that got past their stage check
Remember(calls, call) ==
    LET all == Append(calls, call)
    IN IF Len(all) > 3 THEN Tail(all) ELSE all

CountUp(n) == IF n < 2 THEN n + 1 ELSE n

PipelineInit ==
    /\ self_data = NoneValue
    /\ last_task_run = "EMPTY"
    /\ last_call = "none"
    /\ effective = <<>>
    /\ batch_processed = 0
    /\ data = EmptyFrame
    /\ input = EmptyFrame
    /\ op = "none"
    /\ ret = NoRet

load_data_from_csv ==
    /\ \E df \in RawFrames : self_data' = FrameValue(df)
    /\ last_task_run' = "LOADED_DATA"
    /\ last_call' = "load_data_from_csv"
    /\ effective' = Remember(effective, "load")
    /\ UNCHANGED batch_processed
    /\ UNCHANGED reshape_vars

load_data_from_inmemory ==
    /\ \E df \in RawFrames \cup PredictionFrames : self_data' = FrameValue(df)
    /\ last_task_run' = "LOADED_DATA"
    /\ last_call' = "load_data_from_inmemory"
    /\ effective' = Remember(effective, "load")
    /\ UNCHANGED batch_processed
    /\ UNCHANGED reshape_vars

\* the part deployment_request and project_request share: the stage check,
\* then the scoring result replaces data
Request(name) ==
    /\ last_call' = name
    /\ IF ~RequestAllowed(last_task_run)
       THEN UNCHANGED <<self_data, last_task_run, effective, batch_processed>>
       ELSE /\ \E df \in PredictionFrames : self_data' = FrameValue(df)
            /\ last_task_run' = "PREDICTIONS_OBTAINED"
            /\ effective' = Remember(effective, "request")
            /\ batch_processed' = 0
    /\ UNCHANGED reshape_vars

deployment_request == Request("deployment_request")

project_request == Request("project_request")

\* the part the two process methods share: the stage check, then
\* self.data = reshape(self.data); an exception raised by reshape leaves
\* last_task_run as it was and the frame as reshape left it
Process(name, out) ==
    /\ last_call' = name
    /\ IF ~ProcessAllowed(last_task_run)
       THEN UNCHANGED <<self_data, last_task_run, effective, batch_processed>>
       ELSE IF out.kind = "KeyError"
       THEN /\ self_data' = FrameValue(out.data)
            /\ UNCHANGED <<last_task_run, effective, batch_processed>>
       ELSE /\ self_data' = IF out.kind = "None" THEN NoneValue
                            ELSE FrameValue(out.table)
            /\ last_task_run' = "PREDICTIONS_PROCESSED"
            /\ effective' = Remember(effective, "process")
            /\ batch_processed' = CountUp(batch_processed)
    /\ UNCHANGED reshape_vars

process_deployment_explanations_flat_file ==
    Process("process_deployment_explanations_flat_file",
            return_explanations_flat(self_data.table))

process_deployment_explanations_melted ==
    Process("process_deployment_explanations_melted",
            return_melted_dataframe(self_data.table))

PipelineNext ==
    \/ load_data_from_csv
    \/ load_data_from_inmemory
    \/ deployment_request
    \/ project_request
    \/ process_deployment_explanations_flat_file
    \/ process_deployment_explanations_melted

PipelineSpec == PipelineInit /\ [][PipelineNext]_vars

-----------------------------------------------------------------------------
(* Vocabulary of the properties, read off the input table alone *)

\* slots whose feature-name column exists and is non-null in some row
PopulatedSlots(df) ==
    {n \in Slots : /\ NameCol(n) \in ColSet(df)
                   /\ \E k \in 1..NRows(df) : df.rows[k][NameCol(n)] # NaN}

\* populated slots of row k that name feature f
SlotsNaming(df, k, f) ==
    {n \in PopulatedSlots(df) : df.rows[k][NameCol(n)] = f}

\* populated slots of row k with a non-null feature name
NamedSlots(df, k) ==
    {n \in PopulatedSlots(df) : df.rows[k][NameCol(n)] # NaN}

FeaturesOfRow(df, k) == {df.rows[k][NameCol(n)] : n \in NamedSlots(df, k)}

FeaturesOf(df) == UNION {FeaturesOfRow(df, k) : k \in 1..NRows(df)}

\* the column "<f>_EXPLANATION_STRENGTH"
StrengthColumnOf(f) == [kind |-> "FEATURE", n |-> 0, part |-> f]

PassthroughOf(df) == {c \in ColSet(df) : c.kind # "EXPLANATION"}

\* the cell of row k in f's column, null when the table has no such column
FlatCellOf(df, k, f) ==
    IF StrengthColumnOf(f) \in ColSet(df) THEN df.rows[k][StrengthColumnOf(f)]
    ELSE NaN

\* position of column c in the table
PositionOf(df, c) == CHOOSE j \in 1..Len(df.columns) : df.columns[j] = c

\* number of (row, populated slot) pairs with a non-null feature name, rows
\* k and later
RECURSIVE NamedSlotTotal(_, _)
NamedSlotTotal(df, k) ==
    IF k > NRows(df) THEN 0
    ELSE Cardinality(NamedSlots(df, k)) + NamedSlotTotal(df, k + 1)

\* some populated slot has no strength column
StrengthColumnMissing(df) ==
    \E n \in PopulatedSlots(df) : StrengthCol(n) \notin ColSet(df)

FlatReturned == op = "return_explanations_flat" /\ ret.kind = "table"

MeltedCompleted == op = "return_melted_dataframe" /\ ret.kind # "KeyError"

-----------------------------------------------------------------------------
(* Properties *)

\* C1: the columns return_explanations_flat adds are exactly the columns
\* <f>_EXPLANATION_STRENGTH of the distinct non-null feature names f in the
\* populated slots, and every EXPLANATION_ column is removed.
C1_FlatColumnsExact ==
    FlatReturned =>
        ColSet(ret.table) =
            PassthroughOf(input) \cup {StrengthColumnOf(f) : f \in FeaturesOf(input)}

\* C2: in the flat output the cell of row k in f's column is populated exactly
\* when some populated slot of row k names f, and then holds the strength of
\* such a slot; otherwise it is null.
C2_FlatCells ==
    FlatReturned =>
        \A k \in 1..NRows(input) : \A f \in Features :
            LET cell == FlatCellOf(ret.table, k, f)
            IN /\ (cell # NaN) <=> (SlotsNaming(input, k, f) # {})
               /\ cell # NaN =>
                    \E n \in SlotsNaming(input, k, f) :
                        cell = input.rows[k][StrengthCol(n)]

\* C2 witness: two rows introduce different feature columns, each row null in
\* the column the other one introduced
C2_Witness ==
    /\ FlatReturned
    /\ NRows(input) = 2
    /\ FeaturesOfRow(input, 1) = {"age"}
    /\ FeaturesOfRow(input, 2) = {"income"}
    /\ FlatCellOf(ret.table, 1, "age") = "0.5"
    /\ FlatCellOf(ret.table, 1, "income") = NaN
    /\ FlatCellOf(ret.table, 2, "age") = NaN
    /\ FlatCellOf(ret.table, 2, "income") = "-0.2"

\* C3: the melted output has as many rows as there are (row, populated slot)
\* pairs with a non-null feature name.
C3_MeltedRowCount ==
    MeltedCompleted =>
        /\ ret.kind = "table"
        /\ NRows(ret.table) = NamedSlotTotal(input, 1)

\* C4: return_melted_dataframe returns a table with exactly the columns
\* orig_row_num, feature_name and feature_strength, not None.
C4_MeltedSchema ==
    MeltedCompleted =>
        /\ ret.kind = "table"
        /\ ColSet(ret.table) = {OrigRowNum, FeatureNameOut, FeatureStrengthOut}

\* C5: id_explan_columns returns as populated slots exactly the slots whose
\* feature-name column exists and is non-null in some row, each once; the
\* explanation columns are all EXPLANATION_ columns, all-null slots included,
\* in the order of the table.
C5_Classifier ==
    op = "id_explan_columns" =>
        LET pop == ret.populated
            ecs == ret.explanation_columns
        IN /\ {pop[j] : j \in 1..Len(pop)} = PopulatedSlots(input)
           /\ Len(pop) = Cardinality(PopulatedSlots(input))
           /\ {ecs[j] : j \in 1..Len(ecs)} = ColSet(input) \ PassthroughOf(input)
           /\ \A i, j \in 1..Len(ecs) :
                 i < j => PositionOf(input, ecs[i]) < PositionOf(input, ecs[j])

\* C5 witness: slot 1 is null in every row, slot 2 is not; slot 1 is left out
\* of the populated slots and its columns are explanation columns
C5_Witness ==
    /\ op = "id_explan_columns"
    /\ NRows(input) = 2
    /\ NameCol(1) \in ColSet(input)
    /\ PopulatedSlots(input) = {2}
    /\ ret.populated = <<2>>
    /\ \E j \in 1..Len(ret.explanation_columns) :
          ret.explanation_columns[j] = NameCol(1)

\* C6: a call of return_explanations_flat or return_melted_dataframe leaves
\* the caller's table as it was.
C6_InputUnchanged ==
    op \in {"return_explanations_flat", "return_melted_dataframe"} =>
        SameFrame(data, input)

\* C7 as claimed: with a populated slot without strength column
\* return_explanations_flat fails with InputFormatError.
C7_InputFormatError ==
    (op = "return_explanations_flat" /\ StrengthColumnMissing(input)) =>
        ret.kind = "InputFormatError"

\* C7 amended: with a populated slot without strength column
\* return_explanations_flat fails with KeyError and returns no table.
C7_KeyError ==
    (op = "return_explanations_flat" /\ StrengthColumnMissing(input)) =>
        ret.kind = "KeyError"

\* C7 witness: the call failed on a table whose populated slot 2 has no
\* strength column
C7_Witness ==
    /\ op = "return_explanations_flat"
    /\ 2 \in PopulatedSlots(input)
    /\ StrengthCol(2) \notin ColSet(input)
    /\ StrengthCol(1) \in ColSet(input)
    /\ ret.kind = "KeyError"

\* C8: on a table without rows id_explan_columns returns no populated slot,
\* return_explanations_flat returns the passthrough columns alone and
\* return_melted_dataframe returns a table without rows.
C8_ZeroRows ==
    NRows(input) = 0 =>
        /\ op = "id_explan_columns" => ret.kind = "pair" /\ ret.populated = <<>>
        /\ op = "return_explanations_flat" =>
              /\ ret.kind = "table"
              /\ ColSet(ret.table) = PassthroughOf(input)
        /\ op = "return_melted_dataframe" =>
              /\ ret.kind = "table"
              /\ NRows(ret.table) = 0

\* C9 as claimed: when several populated slots of a row name the same
\* feature, its flat cell holds the strength of the highest of these slots.
C9_HighestSlotWins ==
    FlatReturned =>
        \A k \in 1..NRows(input) : \A f \in Features :
            Cardinality(SlotsNaming(input, k, f)) > 1 =>
                LET top == CHOOSE n \in SlotsNaming(input, k, f) :
                               \A m \in SlotsNaming(input, k, f) : m <= n
                IN FlatCellOf(ret.table, k, f) = input.rows[k][StrengthCol(top)]

\* C9 amended: when several populated slots of a row name the same feature,
\* the input is not rejected and the flat cell holds the strength of the one
\* of these slots whose feature-name column stands last in the table.
C9_LastColumnWins ==
    (op = "return_explanations_flat" /\ ~StrengthColumnMissing(input)) =>
        /\ ret.kind = "table"
        /\ \A k \in 1..NRows(input) : \A f \in Features :
              Cardinality(SlotsNaming(input, k, f)) > 1 =>
                  LET last == CHOOSE n \in SlotsNaming(input, k, f) :
                                  \A m \in SlotsNaming(input, k, f) :
                                      PositionOf(input, NameCol(m))
                                          <= PositionOf(input, NameCol(n))
                  IN FlatCellOf(ret.table, k, f) = input.rows[k][StrengthCol(last)]

\* C9 witness: slot 2 stands before slot 1, both name "age" in row 1 with
\* different strengths, and the cell holds the strength of slot 1
C9_Witness ==
    /\ FlatReturned
    /\ NRows(input) = 1
    /\ SlotsNaming(input, 1, "age") = {1, 2}
    /\ PositionOf(input, NameCol(2)) < PositionOf(input, NameCol(1))
    /\ input.rows[1][StrengthCol(1)] = "0.5"
    /\ input.rows[1][StrengthCol(2)] = "-0.2"
    /\ FlatCellOf(ret.table, 1, "age") = "0.5"

\* C10: the request methods change data and last_task_run only in stage
\* LOADED_DATA, which they leave for PREDICTIONS_OBTAINED; the process methods
\* change them only in stage PREDICTIONS_OBTAINED, which they leave for
\* PREDICTIONS_PROCESSED.  Stage PREDICTIONS_PROCESSED is reached by a load,
\* then a request, then one process call, and no predictions are processed
\* twice.
C10_StageDiscipline ==
    /\ [][ /\ last_call' \in {"deployment_request", "project_request"} =>
                IF last_task_run = "LOADED_DATA"
                THEN last_task_run' = "PREDICTIONS_OBTAINED"
                ELSE UNCHANGED <<self_data, last_task_run>>
           /\ last_call' \in {"process_deployment_explanations_flat_file",
                              "process_deployment_explanations_melted"} =>
                IF last_task_run = "PREDICTIONS_OBTAINED"
                THEN last_task_run' = "PREDICTIONS_PROCESSED"
                ELSE UNCHANGED <<self_data, last_task_run>> ]_vars
    /\ [](/\ batch_processed <= 1
          /\ last_task_run = "PREDICTIONS_PROCESSED" =>
                effective = <<"load", "request", "process">>)

\* C10 witness: after a processed batch a second process call was refused
C10_Witness ==
    /\ last_task_run = "PREDICTIONS_PROCESSED"
    /\ batch_processed = 1
    /\ effective = <<"load", "request", "process">>
    /\ last_call = "process_deployment_explanations_melted"
    /\ self_data.kind = "frame"

====
